---- MODULE Spec2Model ----
(***************************************************************************)
(* Model of the ATtiny412 "HP Book Nook" firmware (HP Book Nook/main.c):   *)
(* a motion-activated LED timer with a capacitive touch pad, driving       *)
(* eight LED strips through a 74HC595 shift register.                      *)
(*                                                                         *)
(* Interrupt handlers run to completion: the tinyAVR interrupt controller  *)
(* does not nest level-0 interrupts, so each ISR is one action.  The strip *)
(* API (strip_on ... strip_motion_disable) is modelled as whole calls.     *)
(* Later sections follow shift_out, main(), the handlers and main-line     *)
(* calls of the strip API statement by statement.                          *)
(***************************************************************************)
EXTENDS Integers, Sequences, FiniteSets, TLC

(***************************************************************************)
(* Program constants (main.c #defines)                                     *)
(***************************************************************************)
TIMEOUT_SEC == 5
ALL_LEDS == 255
LED_STRIP_1 == 1
LED_STRIP_8 == 128
TOUCH_SAMPLES == 64
TOUCH_THRESHOLD == 20
TOUCH_DEBOUNCE == 5
BASELINE_SHIFT == 7
BASELINE_INIT_CYCLES == 16
\* the largest result of the ADC: adc_init selects 10-bit resolution
\* (CTRLA.RESSEL = 0) and no accumulation
AdcMax == 1023

(***************************************************************************)
(* Bounds of the model                                                     *)
(***************************************************************************)
\* the strip API is called with the first MaskCount masks of MaskList
MaskCount == 3
\* consecutive ticks with motion asserted are counted up to MaxHeld
MaxHeld == 2
\* raw ADC levels of the touch pad: the untouched level, a touch just over
\* the threshold, and levels RawSwing below and above the untouched level
\* (the baseline adapts once the difference reaches 2^BASELINE_SHIFT)
RawSwing == 128

MaskList == <<ALL_LEDS, LED_STRIP_1, 0, ALL_LEDS - LED_STRIP_1, LED_STRIP_8>>
Masks == {MaskList[i] : i \in 1..MaskCount}
RawLevels == {500 - RawSwing, 500, 530, 500 + RawSwing}
CalLevels == {500}

(***************************************************************************)
(* Fixed-width arithmetic                                                  *)
(***************************************************************************)
U8(x) == x % 256
U16(x) == x % 65536

RECURSIVE BitAnd(_, _)
BitAnd(a, b) ==
    IF a = 0 \/ b = 0 THEN 0
    ELSE (IF a % 2 = 1 /\ b % 2 = 1 THEN 1 ELSE 0) + 2 * BitAnd(a \div 2, b \div 2)

RECURSIVE BitOr(_, _)
BitOr(a, b) ==
    IF a = 0 THEN b
    ELSE IF b = 0 THEN a
    ELSE (IF a % 2 = 1 \/ b % 2 = 1 THEN 1 ELSE 0) + 2 * BitOr(a \div 2, b \div 2)

RECURSIVE BitXor(_, _)
BitXor(a, b) ==
    IF a = 0 THEN b
    ELSE IF b = 0 THEN a
    ELSE (IF a % 2 # b % 2 THEN 1 ELSE 0) + 2 * BitXor(a \div 2, b \div 2)

\* ~x on a uint8_t promoted to the 16-bit int of avr-gcc / XC8
BitNot(x) == 65535 - x

\* x >> n on an unsigned value
Shr(x, n) == x \div (2^n)

\* bit i (0 = least significant) of x
Bit(x, i) == (x \div (2^i)) % 2

VARIABLES
    led_timer,              \* uint8_t: seconds left, 0 = idle
    shift_reg_state,        \* uint8_t: logical LED bitmask
    motion_enabled_strips,  \* uint8_t: motion eligibility bitmask
    touch_baseline,         \* uint16_t
    touch_debounce_cnt,     \* uint8_t
    touch_state,            \* uint8_t: 0 released, 1 touched
    sr595,                  \* 74HC595 shift stages QA..QH (bit 0 = QA)
    hc595,                  \* 74HC595 storage register = LED outputs
    motion_pin,             \* level of PA2: 0 = motion asserted (active low)
    porta_intflag,          \* PORTA.INTFLAGS & MOTION_PIN: edge pending
    op,                     \* the operation that ran last
    arg,                    \* the filtered reading, when it was a scan
    spi_writes,             \* shift_out calls made by the last operation
    idle_ticks,             \* ticks with motion deasserted since the timer was armed
    held_ticks,             \* consecutive ticks that saw motion asserted
    disagree_run,           \* consecutive scans whose tentative state differed
    script,                 \* position and inputs of a scripted scenario
    exec                    \* program counter and locals of code followed step by step

cpu == <<led_timer, shift_reg_state, motion_enabled_strips, touch_baseline,
         touch_debounce_cnt, touch_state>>
touchvars == <<touch_baseline, touch_debounce_cnt, touch_state>>
vars == <<led_timer, shift_reg_state, motion_enabled_strips, touch_baseline,
          touch_debounce_cnt, touch_state, sr595, hc595, motion_pin,
          porta_intflag, op, arg, spi_writes, idle_ticks, held_ticks, disagree_run,
          script, exec>>

(***************************************************************************)
(* Shift-register output driver                                            *)
(***************************************************************************)
\* The SPI master clocks out n bits of data, most significant first; each
\* SRCLK edge moves the 74HC595 stages one place from QA towards QH and
\* loads SER into QA.
RECURSIVE spi_transfer(_, _, _)
spi_transfer(sr, data, n) ==
    IF n = 0 THEN sr
    ELSE spi_transfer(U8(2 * sr + Bit(data, n - 1)), data, n - 1)

\* the shift stages after the bytes of writes were shifted out in turn
RECURSIVE spi_stages(_, _)
spi_stages(sr, writes) ==
    IF writes = <<>> THEN sr
    ELSE spi_stages(spi_transfer(sr, Head(writes), 8), Tail(writes))

\* An operation that calls shift_out once for each byte of writes: every
\* call transfers its byte and pulses RCLK, which copies the shift stages
\* to the storage register.
spi_log(writes) ==
    /\ sr595' = spi_stages(sr595, writes)
    /\ hc595' = IF writes = <<>> THEN hc595 ELSE sr595'
    /\ spi_writes' = Len(writes)

shift_out(data) == spi_log(<<data>>)

no_shift_out == spi_log(<<>>)

(***************************************************************************)
(* Strip state manager                                                     *)
(***************************************************************************)
strip_on(strip_mask) ==
    /\ shift_reg_state' = U8(BitOr(shift_reg_state, strip_mask))
    /\ shift_out(shift_reg_state')

\* (mutant) strip_off without the complement: shift_reg_state &= strip_mask
strip_off_no_invert(strip_mask) ==
    /\ shift_reg_state' = U8(BitAnd(shift_reg_state, strip_mask))
    /\ shift_out(shift_reg_state')

strip_off(strip_mask) ==
    /\ shift_reg_state' = U8(BitAnd(shift_reg_state, BitNot(strip_mask)))
    /\ shift_out(shift_reg_state')

strip_set(strip_mask) ==
    /\ shift_reg_state' = strip_mask
    /\ shift_out(shift_reg_state')

\* (mutant) strip_toggle without its shift_out
strip_toggle_silent(strip_mask) ==
    /\ shift_reg_state' = U8(BitXor(shift_reg_state, strip_mask))
    /\ no_shift_out

strip_toggle(strip_mask) ==
    /\ shift_reg_state' = U8(BitXor(shift_reg_state, strip_mask))
    /\ shift_out(shift_reg_state')

strip_motion_enable(strip_mask) ==
    motion_enabled_strips' = U8(BitOr(motion_enabled_strips, strip_mask))

strip_motion_disable(strip_mask) ==
    motion_enabled_strips' = U8(BitAnd(motion_enabled_strips, BitNot(strip_mask)))

(***************************************************************************)
(* Touch measurement                                                       *)
(***************************************************************************)
\* sum of samples[lo..hi] in a uint16_t accumulator.  Addition modulo 2^16 is
\* associative, so the loop's running sum is computed here by halves.
RECURSIVE sum16(_, _, _)
sum16(samples, lo, hi) ==
    IF lo > hi THEN 0
    ELSE IF lo = hi THEN U16(samples[lo])
    ELSE LET mid == (lo + hi) \div 2
         IN  U16(sum16(samples, lo, mid) + sum16(samples, mid + 1, hi))

\* touch_measure_filtered: uint16_t sum of TOUCH_SAMPLES readings, >> 6
touch_measure_filtered(samples) == Shr(sum16(samples, 1, TOUCH_SAMPLES), 6)

\* the samples of a pad that sits steadily at one raw level
steady(raw) == [i \in 1..TOUCH_SAMPLES |-> raw]

\* the uint32_t sum of the calibration readings (16 uint16_t values stay
\* below 2^32: there is no wrap to model)
RECURSIVE sum32(_, _)
sum32(readings, n) ==
    IF n = 0 THEN 0 ELSE sum32(readings, n - 1) + U16(readings[n])

\* startup calibration: average of BASELINE_INIT_CYCLES filtered readings
calibrate(readings) ==
    U16(sum32(readings, BASELINE_INIT_CYCLES) \div BASELINE_INIT_CYCLES)

\* tentative = (reading > baseline) && ((reading - baseline) >= TOUCH_THRESHOLD)
tentative(reading, baseline) ==
    IF reading > baseline /\ U16(reading - baseline) >= TOUCH_THRESHOLD THEN 1 ELSE 0

\* (mutant) the step without the comparison: always += (reading - baseline) >> 7
adapt_unsigned(tb, reading, baseline) ==
    U16(tb + Shr(U16(reading - baseline), BASELINE_SHIFT))

\* the adaptive baseline step taken while released
adapt(tb, reading, baseline) ==
    IF reading > baseline THEN U16(tb + Shr(U16(reading - baseline), BASELINE_SHIFT))
    ELSE IF reading < baseline THEN U16(tb - Shr(U16(baseline - reading), BASELINE_SHIFT))
    ELSE tb

(***************************************************************************)
(* Initial state: main() up to sei()                                       *)
(***************************************************************************)
Boot ==
    /\ led_timer = 0
    /\ shift_reg_state = 0
    /\ motion_enabled_strips = ALL_LEDS
    /\ \E raw \in CalLevels :
         LET reading == touch_measure_filtered(steady(raw))
         IN  touch_baseline = calibrate([i \in 1..BASELINE_INIT_CYCLES |-> reading])
    /\ touch_debounce_cnt = 0
    /\ touch_state = 0
    /\ sr595 = spi_transfer(0, 0, 8)
    /\ hc595 = sr595
    /\ motion_pin \in {0, 1}
    /\ porta_intflag = 0
    /\ op = "main"
    /\ arg = 0
    /\ spi_writes = 1
    /\ idle_ticks = TIMEOUT_SEC
    /\ held_ticks = 0
    /\ disagree_run = 0

(***************************************************************************)
(* Motion sensor (environment)                                             *)
(***************************************************************************)
\* PA2 falls: motion detected; the falling-edge sense sets the port flag
MotionFall ==
    /\ motion_pin = 1
    /\ motion_pin' = 0
    /\ porta_intflag' = 1
    /\ op' = "pin"
    /\ arg' = 0
    /\ no_shift_out
    /\ UNCHANGED <<cpu, idle_ticks, held_ticks, disagree_run>>

\* PA2 rises: motion has stopped
MotionRise ==
    /\ motion_pin = 0
    /\ motion_pin' = 1
    /\ op' = "pin"
    /\ arg' = 0
    /\ no_shift_out
    /\ UNCHANGED <<cpu, porta_intflag, idle_ticks, held_ticks, disagree_run>>

(***************************************************************************)
(* Interrupt handlers                                                      *)
(***************************************************************************)
\* (mutant) the edge handler assigning the eligible strips instead of OR-ing
PORTA_PORT_vect_assign ==
    /\ porta_intflag = 1
    /\ porta_intflag' = 0
    /\ shift_reg_state' = motion_enabled_strips
    /\ shift_out(shift_reg_state')
    /\ led_timer' = TIMEOUT_SEC
    /\ op' = "PORTA_PORT_vect"
    /\ arg' = 0
    /\ idle_ticks' = 0
    /\ UNCHANGED <<motion_enabled_strips, touchvars, motion_pin, held_ticks,
                   disagree_run>>

\* ISR(PORTA_PORT_vect): the falling edge of PA2
PORTA_PORT_vect ==
    /\ porta_intflag = 1
    /\ porta_intflag' = 0
    /\ shift_reg_state' = U8(BitOr(shift_reg_state, motion_enabled_strips))
    /\ shift_out(shift_reg_state')
    /\ led_timer' = TIMEOUT_SEC
    /\ op' = "PORTA_PORT_vect"
    /\ arg' = 0
    /\ idle_ticks' = 0
    /\ UNCHANGED <<motion_enabled_strips, touchvars, motion_pin, held_ticks,
                   disagree_run>>

\* (mutant) the tick turning the eligible strips off on every tick that finds
\* the timer at 0, not only on the tick that brings it there
tick_body_every_idle ==
    IF motion_pin = 0
    THEN /\ led_timer' = TIMEOUT_SEC
         /\ UNCHANGED shift_reg_state
         /\ no_shift_out
    ELSE /\ led_timer' = IF led_timer > 0 THEN U8(led_timer + 255) ELSE led_timer
         /\ IF led_timer' = 0
            THEN /\ shift_reg_state' =
                      U8(BitAnd(shift_reg_state, BitNot(motion_enabled_strips)))
                 /\ shift_out(shift_reg_state')
            ELSE /\ UNCHANGED shift_reg_state
                 /\ no_shift_out

\* (mutant) the tick writing the register again while motion is asserted
tick_body_rewrite ==
    IF motion_pin = 0
    THEN /\ led_timer' = TIMEOUT_SEC
         /\ shift_reg_state' = U8(BitOr(shift_reg_state, motion_enabled_strips))
         /\ shift_out(shift_reg_state')
    ELSE IF led_timer > 0
    THEN /\ led_timer' = U8(led_timer + 255)
         /\ IF led_timer' = 0
            THEN /\ shift_reg_state' =
                      U8(BitAnd(shift_reg_state, BitNot(motion_enabled_strips)))
                 /\ shift_out(shift_reg_state')
            ELSE /\ UNCHANGED shift_reg_state
                 /\ no_shift_out
    ELSE /\ UNCHANGED <<led_timer, shift_reg_state>>
         /\ no_shift_out

\* (mutant) the expiring tick switching every strip off, eligible or not
tick_body_clear_all ==
    IF motion_pin = 0
    THEN /\ led_timer' = TIMEOUT_SEC
         /\ UNCHANGED shift_reg_state
         /\ no_shift_out
    ELSE IF led_timer > 0
    THEN /\ led_timer' = U8(led_timer + 255)
         /\ IF led_timer' = 0
            THEN strip_off(ALL_LEDS)
            ELSE /\ UNCHANGED shift_reg_state
                 /\ no_shift_out
    ELSE /\ UNCHANGED <<led_timer, shift_reg_state>>
         /\ no_shift_out

\* (mutant) the tick decrementing without the test led_timer > 0
tick_body_unguarded ==
    IF motion_pin = 0
    THEN /\ led_timer' = TIMEOUT_SEC
         /\ UNCHANGED shift_reg_state
         /\ no_shift_out
    ELSE /\ led_timer' = U8(led_timer + 255)
         /\ IF led_timer' = 0
            THEN /\ shift_reg_state' =
                      U8(BitAnd(shift_reg_state, BitNot(motion_enabled_strips)))
                 /\ shift_out(shift_reg_state')
            ELSE /\ UNCHANGED shift_reg_state
                 /\ no_shift_out

\* (mutant) the tick that never decrements
tick_body_stall ==
    IF motion_pin = 0
    THEN /\ led_timer' = TIMEOUT_SEC
         /\ UNCHANGED shift_reg_state
         /\ no_shift_out
    ELSE /\ UNCHANGED <<led_timer, shift_reg_state>>
         /\ no_shift_out

\* (mutant) the tick switching the eligible strips off at its first decrement
tick_body_expire_early ==
    IF motion_pin = 0
    THEN /\ led_timer' = TIMEOUT_SEC
         /\ UNCHANGED shift_reg_state
         /\ no_shift_out
    ELSE IF led_timer > 0
    THEN /\ led_timer' = U8(led_timer + 255)
         /\ IF led_timer' = 0 \/ led_timer = TIMEOUT_SEC
            THEN /\ shift_reg_state' =
                      U8(BitAnd(shift_reg_state, BitNot(motion_enabled_strips)))
                 /\ shift_out(shift_reg_state')
            ELSE /\ UNCHANGED shift_reg_state
                 /\ no_shift_out
    ELSE /\ UNCHANGED <<led_timer, shift_reg_state>>
         /\ no_shift_out

\* the body of ISR(TCA0_OVF_vect)
tick_body ==
    IF motion_pin = 0
    THEN /\ led_timer' = TIMEOUT_SEC
         /\ UNCHANGED shift_reg_state
         /\ no_shift_out
    ELSE IF led_timer > 0
    THEN /\ led_timer' = U8(led_timer + 255)
         /\ IF led_timer' = 0
            THEN /\ shift_reg_state' =
                      U8(BitAnd(shift_reg_state, BitNot(motion_enabled_strips)))
                 /\ shift_out(shift_reg_state')
            ELSE /\ UNCHANGED shift_reg_state
                 /\ no_shift_out
    ELSE /\ UNCHANGED <<led_timer, shift_reg_state>>
         /\ no_shift_out

\* ISR(TCA0_OVF_vect): the 1 Hz tick
TCA0_OVF_vect ==
    /\ tick_body
    /\ op' = "TCA0_OVF_vect"
    /\ arg' = 0
    /\ idle_ticks' = IF motion_pin = 0 THEN 0
                     ELSE IF idle_ticks < TIMEOUT_SEC THEN idle_ticks + 1
                     ELSE idle_ticks
    /\ held_ticks' = IF motion_pin # 0 THEN 0
                     ELSE IF held_ticks < MaxHeld THEN held_ticks + 1
                     ELSE held_ticks
    /\ UNCHANGED <<motion_enabled_strips, touchvars, motion_pin, porta_intflag,
                   disagree_run>>

\* the filtered readings a scan can obtain
Readings == {touch_measure_filtered(steady(raw)) : raw \in RawLevels}

\* (mutant) the debounce step without the reset on agreement
debounce_no_reset(tent) ==
    LET cnt == U8(touch_debounce_cnt + 1)
    IN  IF tent # touch_state
        THEN IF cnt >= TOUCH_DEBOUNCE
             THEN /\ touch_state' = tent
                  /\ touch_debounce_cnt' = 0
                  /\ IF touch_state' # 0
                     THEN strip_on(ALL_LEDS)
                     ELSE strip_off(ALL_LEDS)
             ELSE /\ touch_debounce_cnt' = cnt
                  /\ UNCHANGED <<touch_state, shift_reg_state>>
                  /\ no_shift_out
        ELSE /\ UNCHANGED <<touch_debounce_cnt, touch_state, shift_reg_state>>
             /\ no_shift_out

\* (mutant) the debounce step committing one scan late: cnt > TOUCH_DEBOUNCE
debounce_late(tent) ==
    LET cnt == U8(touch_debounce_cnt + 1)
    IN  IF tent # touch_state
        THEN IF cnt > TOUCH_DEBOUNCE
             THEN /\ touch_state' = tent
                  /\ touch_debounce_cnt' = 0
                  /\ IF touch_state' # 0
                     THEN strip_on(ALL_LEDS)
                     ELSE strip_off(ALL_LEDS)
             ELSE /\ touch_debounce_cnt' = cnt
                  /\ UNCHANGED <<touch_state, shift_reg_state>>
                  /\ no_shift_out
        ELSE /\ touch_debounce_cnt' = 0
             /\ UNCHANGED <<touch_state, shift_reg_state>>
             /\ no_shift_out

\* (mutant) a commit acting on the motion-eligible strips only
debounce_eligible_only(tent) ==
    LET cnt == U8(touch_debounce_cnt + 1)
    IN  IF tent # touch_state
        THEN IF cnt >= TOUCH_DEBOUNCE
             THEN /\ touch_state' = tent
                  /\ touch_debounce_cnt' = 0
                  /\ IF touch_state' # 0
                     THEN strip_on(motion_enabled_strips)
                     ELSE strip_off(motion_enabled_strips)
             ELSE /\ touch_debounce_cnt' = cnt
                  /\ UNCHANGED <<touch_state, shift_reg_state>>
                  /\ no_shift_out
        ELSE /\ touch_debounce_cnt' = 0
             /\ UNCHANGED <<touch_state, shift_reg_state>>
             /\ no_shift_out

\* (mutant) a commit that leaves the counter at TOUCH_DEBOUNCE
debounce_keep_count(tent) ==
    LET cnt == U8(touch_debounce_cnt + 1)
    IN  IF tent # touch_state
        THEN IF cnt >= TOUCH_DEBOUNCE
             THEN /\ touch_state' = tent
                  /\ touch_debounce_cnt' = cnt
                  /\ IF touch_state' # 0
                     THEN strip_on(ALL_LEDS)
                     ELSE strip_off(ALL_LEDS)
             ELSE /\ touch_debounce_cnt' = cnt
                  /\ UNCHANGED <<touch_state, shift_reg_state>>
                  /\ no_shift_out
        ELSE /\ touch_debounce_cnt' = 0
             /\ UNCHANGED <<touch_state, shift_reg_state>>
             /\ no_shift_out

\* the debounce step of ISR(TCB0_INT_vect)
debounce(tent) ==
    LET cnt == U8(touch_debounce_cnt + 1)
    IN  IF tent # touch_state
        THEN IF cnt >= TOUCH_DEBOUNCE
             THEN /\ touch_state' = tent
                  /\ touch_debounce_cnt' = 0
                  /\ IF touch_state' # 0
                     THEN strip_on(ALL_LEDS)
                     ELSE strip_off(ALL_LEDS)
             ELSE /\ touch_debounce_cnt' = cnt
                  /\ UNCHANGED <<touch_state, shift_reg_state>>
                  /\ no_shift_out
        ELSE /\ touch_debounce_cnt' = 0
             /\ UNCHANGED <<touch_state, shift_reg_state>>
             /\ no_shift_out

\* (mutant) the baseline step without the test of touch_state
baseline_update_always(reading, baseline) ==
    touch_baseline' = adapt(touch_baseline, reading, baseline)

\* the baseline step of ISR(TCB0_INT_vect); it reads the touch_state the
\* debounce step left
baseline_update(reading, baseline) ==
    IF touch_state' = 0
    THEN touch_baseline' = adapt(touch_baseline, reading, baseline)
    ELSE UNCHANGED touch_baseline

\* ISR(TCB0_INT_vect): the 40 Hz scan, touch_measure_filtered() returning reading
TCB0_INT_vect(reading) ==
    LET baseline == touch_baseline
        tent == tentative(reading, baseline)
    IN  /\ debounce(tent)
        /\ baseline_update(reading, baseline)
        /\ op' = "TCB0_INT_vect"
        /\ arg' = reading
        /\ disagree_run' = IF tent = touch_state \/ touch_state' # touch_state THEN 0
                           ELSE IF disagree_run < TOUCH_DEBOUNCE THEN disagree_run + 1
                           ELSE disagree_run
        /\ UNCHANGED <<led_timer, motion_enabled_strips, motion_pin, porta_intflag,
                       idle_ticks, held_ticks>>

TouchScan == \E reading \in Readings : TCB0_INT_vect(reading)

(***************************************************************************)
(* Calls of the strip API                                                  *)
(***************************************************************************)
\* what a call of a direct-control function leaves alone
direct_frame(name) ==
    /\ op' = name
    /\ arg' = 0
    /\ UNCHANGED <<led_timer, motion_enabled_strips, touchvars, motion_pin,
                   porta_intflag, idle_ticks, held_ticks, disagree_run>>

CallStripOn == \E m \in Masks : strip_on(m) /\ direct_frame("strip_on")
CallStripOff == \E m \in Masks : strip_off(m) /\ direct_frame("strip_off")
CallStripSet == \E m \in Masks : strip_set(m) /\ direct_frame("strip_set")
CallStripToggle == \E m \in Masks : strip_toggle(m) /\ direct_frame("strip_toggle")

\* what a call of a motion-eligibility function leaves alone
eligibility_frame(name) ==
    /\ op' = name
    /\ arg' = 0
    /\ no_shift_out
    /\ UNCHANGED <<led_timer, shift_reg_state, touchvars, motion_pin,
                   porta_intflag, idle_ticks, held_ticks, disagree_run>>

CallMotionEnable ==
    \E m \in Masks : strip_motion_enable(m) /\ eligibility_frame("strip_motion_enable")
\* (mutant) strip_motion_disable also switching the strips off
CallMotionDisable_switch_off ==
    \E m \in Masks :
        /\ strip_motion_disable(m)
        /\ strip_off(m)
        /\ op' = "strip_motion_disable"
        /\ arg' = 0
        /\ UNCHANGED <<led_timer, touchvars, motion_pin, porta_intflag, idle_ticks,
                       held_ticks, disagree_run>>

CallMotionDisable ==
    \E m \in Masks : strip_motion_disable(m) /\ eligibility_frame("strip_motion_disable")

(***************************************************************************)
(* The firmware: interrupts and API calls in any order                     *)
(***************************************************************************)
NoScript == [pc |-> 0, m1 |-> 0, m2 |-> 0, prior |-> 0]
\* no code is being followed step by step: whole handlers, whole calls
NoExec == [pc |-> "idle"]

Init == Boot /\ script = NoScript /\ exec = NoExec

PinFalls == MotionFall /\ UNCHANGED <<script, exec>>
PinRises == MotionRise /\ UNCHANGED <<script, exec>>
MotionEdge == PORTA_PORT_vect /\ UNCHANGED <<script, exec>>
Tick == TCA0_OVF_vect /\ UNCHANGED <<script, exec>>
Scan == TouchScan /\ UNCHANGED <<script, exec>>
ManualOn == CallStripOn /\ UNCHANGED <<script, exec>>
ManualOff == CallStripOff /\ UNCHANGED <<script, exec>>
ManualSet == CallStripSet /\ UNCHANGED <<script, exec>>
ManualToggle == CallStripToggle /\ UNCHANGED <<script, exec>>
MotionEnable == CallMotionEnable /\ UNCHANGED <<script, exec>>
MotionDisable == CallMotionDisable /\ UNCHANGED <<script, exec>>

Next ==
    \/ PinFalls
    \/ PinRises
    \/ MotionEdge
    \/ Tick
    \/ Scan
    \/ ManualOn
    \/ ManualOff
    \/ ManualSet
    \/ ManualToggle
    \/ MotionEnable
    \/ MotionDisable

Spec == Init /\ [][Next]_vars

(***************************************************************************)
(* Bitwise relations, stated strip by strip                                *)
(***************************************************************************)
Strips == 0..7
Byte == 0..255
On(x, i) == Bit(x, i) = 1

\* r has exactly the strips of a and the strips of b
IsOr(r, a, b) == r \in Byte /\ \A i \in Strips : On(r, i) <=> (On(a, i) \/ On(b, i))
\* r has exactly the strips of a that are not in b
IsAndNot(r, a, b) == r \in Byte /\ \A i \in Strips : On(r, i) <=> (On(a, i) /\ ~On(b, i))
\* r has exactly the strips that are in one of a and b
IsXor(r, a, b) == r \in Byte /\ \A i \in Strips : On(r, i) <=> (On(a, i) # On(b, i))
\* every strip of a is a strip of b
Within(a, b) == \A i \in Strips : On(a, i) => On(b, i)

(***************************************************************************)
(* Scenario: ten scans with prescribed readings, amid motion events        *)
(***************************************************************************)
\* scans 1..TOUCH_DEBOUNCE read 530, the TOUCH_DEBOUNCE scans after them 500
E2EScan ==
    /\ script.pc < 2 * TOUCH_DEBOUNCE
    /\ TCB0_INT_vect(touch_measure_filtered(
           steady(IF script.pc < TOUCH_DEBOUNCE THEN 530 ELSE 500)))
    /\ script' = [script EXCEPT !.pc = @ + 1]
    /\ UNCHANGED exec

NextE2E ==
    \/ E2EScan
    \/ PinFalls
    \/ PinRises
    \/ MotionEdge
    \/ Tick

SpecE2E == Init /\ [][NextE2E]_vars

(***************************************************************************)
(* Scenario: a fixed sequence of direct-control calls, no interrupts       *)
(***************************************************************************)
\* the second mask and the prior state are sampled so that, with every
\* first mask, each strip position meets each combination of bits
SecondMasks == {0, 15, 165, ALL_LEDS}
PriorStates == {0, 51}

InitAPI ==
    /\ Boot
    /\ script \in [pc : {1}, m1 : Byte, m2 : SecondMasks, prior : PriorStates]
    /\ exec = NoExec

ApiStep(from) ==
    /\ script.pc = from
    /\ script' = [script EXCEPT !.pc = from + 1]
    /\ UNCHANGED exec

\* strip_set(prior); strip_on(m1); strip_on(m2); strip_set(ALL_LEDS);
\* strip_off(m1); strip_toggle(m2)
ApiSetPrior == ApiStep(1) /\ strip_set(script.prior) /\ direct_frame("strip_set")
ApiOnFirst == ApiStep(2) /\ strip_on(script.m1) /\ direct_frame("strip_on")
ApiOnSecond == ApiStep(3) /\ strip_on(script.m2) /\ direct_frame("strip_on")
ApiSetAll == ApiStep(4) /\ strip_set(ALL_LEDS) /\ direct_frame("strip_set")
ApiOffFirst == ApiStep(5) /\ strip_off(script.m1) /\ direct_frame("strip_off")
ApiToggleSecond == ApiStep(6) /\ strip_toggle(script.m2) /\ direct_frame("strip_toggle")

NextAPI ==
    \/ ApiSetPrior
    \/ ApiOnFirst
    \/ ApiOnSecond
    \/ ApiSetAll
    \/ ApiOffFirst
    \/ ApiToggleSecond

SpecAPI == InitAPI /\ [][NextAPI]_vars

(***************************************************************************)
(* The interrupt-driven firmware with the 1 Hz timer running: TCA0 keeps   *)
(* overflowing, so a tick that can change the state is eventually served   *)
(***************************************************************************)
NextLive ==
    \/ PinFalls
    \/ PinRises
    \/ MotionEdge
    \/ Tick
    \/ Scan
    \/ MotionDisable

SpecLive == Init /\ [][NextLive]_vars /\ WF_vars(Tick)

(***************************************************************************)
(* A tick arriving while a motion edge is pending: both orders of service  *)
(***************************************************************************)
\* everything but exec
machine == <<led_timer, shift_reg_state, motion_enabled_strips, touch_baseline,
             touch_debounce_cnt, touch_state, sr595, hc595, motion_pin,
             porta_intflag, op, arg, spi_writes, idle_ticks, held_ticks,
             disagree_run, script>>

\* the state of the machine, to come back to
snapshot ==
    [led_timer |-> led_timer,
     shift_reg_state |-> shift_reg_state,
     motion_enabled_strips |-> motion_enabled_strips,
     touch_baseline |-> touch_baseline,
     touch_debounce_cnt |-> touch_debounce_cnt,
     touch_state |-> touch_state,
     sr595 |-> sr595,
     hc595 |-> hc595,
     motion_pin |-> motion_pin,
     porta_intflag |-> porta_intflag,
     op |-> op,
     arg |-> arg,
     spi_writes |-> spi_writes,
     idle_ticks |-> idle_ticks,
     held_ticks |-> held_ticks,
     disagree_run |-> disagree_run,
     script |-> script]

\* the firmware runs as in Spec
RaceRun == exec.pc = "idle" /\ Next

\* an edge is pending and the 1 Hz timer overflows: remember the state
RaceFork ==
    /\ exec.pc = "idle"
    /\ porta_intflag = 1
    /\ exec' = [pc |-> "edge_tick", snap |-> snapshot, out |-> <<>>]
    /\ UNCHANGED machine

\* order 1: the edge handler, then the tick handler
RaceEdgeThenTick1 ==
    /\ exec.pc = "edge_tick"
    /\ PORTA_PORT_vect
    /\ exec' = [exec EXCEPT !.pc = "edge_tick_2"]
    /\ UNCHANGED script

RaceEdgeThenTick2 ==
    /\ exec.pc = "edge_tick_2"
    /\ TCA0_OVF_vect
    /\ exec' = [exec EXCEPT !.pc = "rewind", !.out = <<shift_reg_state', hc595'>>]
    /\ UNCHANGED script

\* back to the remembered state
RaceRewind ==
    /\ exec.pc = "rewind"
    /\ led_timer' = exec.snap.led_timer
    /\ shift_reg_state' = exec.snap.shift_reg_state
    /\ motion_enabled_strips' = exec.snap.motion_enabled_strips
    /\ touch_baseline' = exec.snap.touch_baseline
    /\ touch_debounce_cnt' = exec.snap.touch_debounce_cnt
    /\ touch_state' = exec.snap.touch_state
    /\ sr595' = exec.snap.sr595
    /\ hc595' = exec.snap.hc595
    /\ motion_pin' = exec.snap.motion_pin
    /\ porta_intflag' = exec.snap.porta_intflag
    /\ op' = exec.snap.op
    /\ arg' = exec.snap.arg
    /\ spi_writes' = exec.snap.spi_writes
    /\ idle_ticks' = exec.snap.idle_ticks
    /\ held_ticks' = exec.snap.held_ticks
    /\ disagree_run' = exec.snap.disagree_run
    /\ script' = exec.snap.script
    /\ exec' = [exec EXCEPT !.pc = "tick_edge"]

\* order 2: the tick handler, then the edge handler
RaceTickThenEdge1 ==
    /\ exec.pc = "tick_edge"
    /\ TCA0_OVF_vect
    /\ exec' = [exec EXCEPT !.pc = "tick_edge_2"]
    /\ UNCHANGED script

RaceTickThenEdge2 ==
    /\ exec.pc = "tick_edge_2"
    /\ PORTA_PORT_vect
    /\ exec' = [exec EXCEPT !.pc = "both_done"]
    /\ UNCHANGED script

NextRace ==
    \/ RaceRun
    \/ RaceFork
    \/ RaceEdgeThenTick1
    \/ RaceEdgeThenTick2
    \/ RaceRewind
    \/ RaceTickThenEdge1
    \/ RaceTickThenEdge2

SpecRace == Init /\ [][NextRace]_vars

(***************************************************************************)
(* shift_out followed statement by statement, with the SPI peripheral and  *)
(* the 74HC595 (SRCLK = SCK, SER = MOSI, RCLK = PA6) as hardware steps     *)
(***************************************************************************)
\* bytes the driver is called with
ShiftBytes == {0, LED_STRIP_1, 90, 165, LED_STRIP_8, ALL_LEDS}

\* what the rest of the machine does meanwhile: nothing
shift_frame ==
    UNCHANGED <<led_timer, motion_enabled_strips, touchvars, motion_pin,
                porta_intflag, op, arg, spi_writes, idle_ticks, held_ticks,
                disagree_run, script>>

\* main() has called shift_out(0) once: PA6 is low again, the SPI disabled,
\* the register holds 0
InitShift ==
    /\ Boot
    /\ script = NoScript
    /\ exec = [pc |-> "idle", data |-> 0, prev |-> 0, latch |-> 0, spi_en |-> 0,
               spi_if |-> 0, buf |-> 0, bits |-> 0, pulses |-> 1]

\* strip_set(data): shift_reg_state = data; shift_out(shift_reg_state) is entered
ShiftCall ==
    /\ exec.pc = "idle"
    /\ \E data \in ShiftBytes :
         /\ shift_reg_state' = data
         /\ exec' = [exec EXCEPT !.pc = "l101", !.data = data, !.prev = hc595,
                                 !.pulses = 0]
    /\ UNCHANGED <<sr595, hc595>>
    /\ shift_frame

\* SPI0.CTRLA |= SPI_ENABLE_bm
ShiftL101 ==
    /\ exec.pc = "l101"
    /\ exec' = [exec EXCEPT !.pc = "l104", !.spi_en = 1]
    /\ UNCHANGED <<shift_reg_state, sr595, hc595>>
    /\ shift_frame

\* PORTA.OUTCLR = LATCH_PIN
ShiftL104 ==
    /\ exec.pc = "l104"
    /\ exec' = [exec EXCEPT !.pc = "l107", !.latch = 0]
    /\ UNCHANGED <<shift_reg_state, sr595, hc595>>
    /\ shift_frame

\* SPI0.INTFLAGS = SPI_IF_bm
ShiftL107 ==
    /\ exec.pc = "l107"
    /\ exec' = [exec EXCEPT !.pc = "l110", !.spi_if = 0]
    /\ UNCHANGED <<shift_reg_state, sr595, hc595>>
    /\ shift_frame

\* SPI0.DATA = data: the transfer of eight bits starts
ShiftL110 ==
    /\ exec.pc = "l110"
    /\ exec' = [exec EXCEPT !.pc = "l113", !.buf = exec.data,
                            !.bits = IF exec.spi_en = 1 THEN 8 ELSE 0]
    /\ UNCHANGED <<shift_reg_state, sr595, hc595>>
    /\ shift_frame

\* one SCK pulse: the next bit, most significant first, enters the shift
\* stages; after the eighth the peripheral raises SPI_IF
SpiClock ==
    /\ exec.spi_en = 1
    /\ exec.bits > 0
    /\ sr595' = spi_transfer(sr595, Shr(exec.buf, exec.bits - 1), 1)
    /\ exec' = [exec EXCEPT !.bits = @ - 1,
                            !.spi_if = IF exec.bits = 1 THEN 1 ELSE @]
    /\ UNCHANGED <<shift_reg_state, hc595>>
    /\ shift_frame

\* (mutant) the wait loop left without looking at SPI_IF
ShiftL113_no_wait ==
    /\ exec.pc = "l113"
    /\ exec' = [exec EXCEPT !.pc = "l116"]
    /\ UNCHANGED <<shift_reg_state, sr595, hc595>>
    /\ shift_frame

\* while (!(SPI0.INTFLAGS & SPI_IF_bm));
ShiftL113 ==
    /\ exec.pc = "l113"
    /\ exec.spi_if = 1
    /\ exec' = [exec EXCEPT !.pc = "l116"]
    /\ UNCHANGED <<shift_reg_state, sr595, hc595>>
    /\ shift_frame

\* SPI0.INTFLAGS = SPI_IF_bm
ShiftL116 ==
    /\ exec.pc = "l116"
    /\ exec' = [exec EXCEPT !.pc = "l119", !.spi_if = 0]
    /\ UNCHANGED <<shift_reg_state, sr595, hc595>>
    /\ shift_frame

\* PORTA.OUTSET = LATCH_PIN: a rising edge of RCLK copies the shift stages
\* to the storage register
ShiftL119 ==
    /\ exec.pc = "l119"
    /\ exec' = [exec EXCEPT !.pc = "l120", !.latch = 1,
                            !.pulses = IF exec.latch = 0 THEN @ + 1 ELSE @]
    /\ hc595' = IF exec.latch = 0 THEN sr595 ELSE hc595
    /\ UNCHANGED <<shift_reg_state, sr595>>
    /\ shift_frame

\* PORTA.OUTCLR = LATCH_PIN
ShiftL120 ==
    /\ exec.pc = "l120"
    /\ exec' = [exec EXCEPT !.pc = "l123", !.latch = 0]
    /\ UNCHANGED <<shift_reg_state, sr595, hc595>>
    /\ shift_frame

\* SPI0.CTRLA &= ~SPI_ENABLE_bm, and return
ShiftL123 ==
    /\ exec.pc = "l123"
    /\ exec' = [exec EXCEPT !.pc = "idle", !.spi_en = 0]
    /\ UNCHANGED <<shift_reg_state, sr595, hc595>>
    /\ shift_frame

NextShift ==
    \/ ShiftCall
    \/ ShiftL101
    \/ ShiftL104
    \/ ShiftL107
    \/ ShiftL110
    \/ SpiClock
    \/ ShiftL113
    \/ ShiftL116
    \/ ShiftL119
    \/ ShiftL120
    \/ ShiftL123

SpecShift == InitShift /\ [][NextShift]_vars

(***************************************************************************)
(* main() followed from reset, statement by statement, with the interrupt  *)
(* requests of the peripherals and the global interrupt enable             *)
(***************************************************************************)
\* the 74HC595 powers up with its registers undefined
PowerUpBytes == {0, 165, ALL_LEDS}

\* reset: .data/.bss initialised, interrupts disabled, peripherals off
InitBoot ==
    /\ led_timer = 0
    /\ shift_reg_state = 0
    /\ motion_enabled_strips = ALL_LEDS
    /\ touch_baseline = 0
    /\ touch_debounce_cnt = 0
    /\ touch_state = 0
    /\ sr595 \in PowerUpBytes
    /\ hc595 \in PowerUpBytes
    /\ motion_pin \in {0, 1}
    /\ porta_intflag = 0
    /\ op = "reset"
    /\ arg = 0
    /\ spi_writes = 0
    /\ idle_ticks = TIMEOUT_SEC
    /\ held_ticks = 0
    /\ disagree_run = 0
    /\ script = NoScript
    /\ exec = [pc |-> "l364", sreg_i |-> 0, sense |-> 0, tca |-> 0, tcb |-> 0,
               tca_if |-> 0, tcb_if |-> 0, cal |-> 0, baseline_sum |-> 0,
               handled |-> 0]

\* a statement of main that touches no variable of the program
main_frame ==
    /\ op' = "main"
    /\ arg' = 0
    /\ UNCHANGED <<cpu, motion_pin, idle_ticks, held_ticks, disagree_run, script>>

\* such a statement, leading to the statement at to
main_goto(to) ==
    /\ exec' = [exec EXCEPT !.pc = to]
    /\ no_shift_out
    /\ UNCHANGED porta_intflag
    /\ main_frame

\* PORTA.DIRSET = LATCH_PIN; PORTA.OUTCLR = LATCH_PIN
BootL364 == exec.pc = "l364" /\ main_goto("l368")

\* PORTA.DIRCLR = MOTION_PIN; PORTA.PIN2CTRL = pull-up, falling-edge sense
BootL368 ==
    /\ exec.pc = "l368"
    /\ exec' = [exec EXCEPT !.pc = "l372", !.sense = 1]
    /\ no_shift_out
    /\ UNCHANGED porta_intflag
    /\ main_frame

\* PORTA.INTFLAGS = MOTION_PIN
BootL372 ==
    /\ exec.pc = "l372"
    /\ exec' = [exec EXCEPT !.pc = "l375"]
    /\ porta_intflag' = 0
    /\ no_shift_out
    /\ main_frame

\* spi_init()
BootL375 == exec.pc = "l375" /\ main_goto("l378")

\* shift_reg_state = 0; shift_out(shift_reg_state)
BootL378 ==
    /\ exec.pc = "l378"
    /\ exec' = [exec EXCEPT !.pc = "l385"]
    /\ shift_reg_state' = 0
    /\ shift_out(shift_reg_state')
    /\ op' = "main"
    /\ arg' = 0
    /\ UNCHANGED <<led_timer, motion_enabled_strips, touchvars, motion_pin,
                   porta_intflag, idle_ticks, held_ticks, disagree_run, script>>

\* (mutant) TCA0 armed and the global interrupt enable set right away
BootL385_sei ==
    /\ exec.pc = "l385"
    /\ exec' = [exec EXCEPT !.pc = "l392", !.tca = 1, !.sreg_i = 1]
    /\ no_shift_out
    /\ UNCHANGED porta_intflag
    /\ main_frame

\* TCA0.SINGLE.PER, CTRLA (enable), INTCTRL (overflow interrupt)
BootL385 ==
    /\ exec.pc = "l385"
    /\ exec' = [exec EXCEPT !.pc = "l392", !.tca = 1]
    /\ no_shift_out
    /\ UNCHANGED porta_intflag
    /\ main_frame

\* adc_init(); baseline_sum = 0
BootL392 == exec.pc = "l392" /\ main_goto("l396")

\* one turn of the calibration loop: baseline_sum += touch_measure_filtered()
BootL396 ==
    /\ exec.pc = "l396"
    /\ exec.cal < BASELINE_INIT_CYCLES
    /\ \E raw \in CalLevels :
         exec' = [exec EXCEPT !.cal = @ + 1,
                    !.baseline_sum = @ + touch_measure_filtered(steady(raw))]
    /\ no_shift_out
    /\ UNCHANGED porta_intflag
    /\ main_frame

\* touch_baseline = (uint16_t)(baseline_sum / BASELINE_INIT_CYCLES)
BootL400 ==
    /\ exec.pc = "l396"
    /\ exec.cal = BASELINE_INIT_CYCLES
    /\ exec' = [exec EXCEPT !.pc = "l403"]
    /\ touch_baseline' = U16(exec.baseline_sum \div BASELINE_INIT_CYCLES)
    /\ no_shift_out
    /\ op' = "main"
    /\ arg' = 0
    /\ UNCHANGED <<led_timer, shift_reg_state, motion_enabled_strips,
                   touch_debounce_cnt, touch_state, motion_pin, porta_intflag,
                   idle_ticks, held_ticks, disagree_run, script>>

\* tcb0_init()
BootL403 ==
    /\ exec.pc = "l403"
    /\ exec' = [exec EXCEPT !.pc = "l406", !.tcb = 1]
    /\ no_shift_out
    /\ UNCHANGED porta_intflag
    /\ main_frame

\* sei()
BootL406 ==
    /\ exec.pc = "l406"
    /\ exec' = [exec EXCEPT !.pc = "l410", !.sreg_i = 1]
    /\ no_shift_out
    /\ UNCHANGED porta_intflag
    /\ main_frame

\* set_sleep_mode(SLEEP_MODE_IDLE)
BootL410 == exec.pc = "l410" /\ main_goto("l414")

\* while (1) sleep_mode();
BootL414 == exec.pc = "l414" /\ main_goto("l414")

\* PA2 changes level; a falling edge is flagged once the sense is configured
BootPinFalls ==
    /\ motion_pin = 1
    /\ motion_pin' = 0
    /\ porta_intflag' = IF exec.sense = 1 THEN 1 ELSE porta_intflag
    /\ op' = "pin"
    /\ arg' = 0
    /\ no_shift_out
    /\ UNCHANGED <<cpu, idle_ticks, held_ticks, disagree_run, script, exec>>


\* TCA0 overflows / TCB0 reaches its period: the request flag is set
BootTimers ==
    /\ \/ exec.tca = 1 /\ exec.tca_if = 0 /\ exec' = [exec EXCEPT !.tca_if = 1]
       \/ exec.tcb = 1 /\ exec.tcb_if = 0 /\ exec' = [exec EXCEPT !.tcb_if = 1]
    /\ op' = "timer"
    /\ arg' = 0
    /\ no_shift_out
    /\ UNCHANGED <<cpu, motion_pin, porta_intflag, idle_ticks, held_ticks,
                   disagree_run, script>>

\* a requested interrupt is served when the global enable is set
BootEdge ==
    /\ exec.sreg_i = 1
    /\ exec.sense = 1
    /\ PORTA_PORT_vect
    /\ exec' = [exec EXCEPT !.handled = 1]
    /\ UNCHANGED script

BootTick ==
    /\ exec.sreg_i = 1
    /\ exec.tca_if = 1
    /\ TCA0_OVF_vect
    /\ exec' = [exec EXCEPT !.tca_if = 0, !.handled = 1]
    /\ UNCHANGED script

BootScan ==
    /\ exec.sreg_i = 1
    /\ exec.tcb_if = 1
    /\ TouchScan
    /\ exec' = [exec EXCEPT !.tcb_if = 0, !.handled = 1]
    /\ UNCHANGED script

NextBoot ==
    \/ BootL364
    \/ BootL368
    \/ BootL372
    \/ BootL375
    \/ BootL378
    \/ BootL385
    \/ BootL392
    \/ BootL396
    \/ BootL400
    \/ BootL403
    \/ BootL406
    \/ BootL410
    \/ BootL414
    \/ BootPinFalls
    \/ PinRises
    \/ BootTimers
    \/ BootEdge
    \/ BootTick
    \/ BootScan

SpecBoot == InitBoot /\ [][NextBoot]_vars

(***************************************************************************)
(* The three handlers followed statement by statement.  exec.stack holds   *)
(* the frames of the handlers in progress (the innermost first); a handler *)
(* that has returned is compared with the same handler run as one step.    *)
(***************************************************************************)
\* readings of the scans: the untouched pad and a touch
IsrReadings == {touch_measure_filtered(steady(raw)) : raw \in {500, 530}}

\* the variables the handlers work on, and the register
memory ==
    [led_timer |-> led_timer, shift_reg_state |-> shift_reg_state,
     touch_baseline |-> touch_baseline, touch_debounce_cnt |-> touch_debounce_cnt,
     touch_state |-> touch_state, sr595 |-> sr595, hc595 |-> hc595]

InitIsr ==
    /\ Boot
    /\ script = NoScript
    /\ exec = [pc |-> "run", stack |-> <<>>, tca_if |-> 0, tcb_if |-> 0,
               done |-> <<>>, result |-> <<>>, env |-> <<>>]

top == exec.stack[1]
ghosts == <<op, arg, idle_ticks, held_ticks, disagree_run, script>>

\* the handler isr is in progress, innermost, at statement at
At(isr, at) ==
    /\ exec.pc = "run"
    /\ exec.stack # <<>>
    /\ top.isr = isr
    /\ top.pc = at

\* the interrupt request flags
Requested(isr) ==
    \/ isr = "PORTA_PORT_vect" /\ porta_intflag = 1
    \/ isr = "TCA0_OVF_vect" /\ exec.tca_if = 1
    \/ isr = "TCB0_INT_vect" /\ exec.tcb_if = 1

NewFrame(isr) ==
    [isr |-> isr,
     pc |-> CASE isr = "PORTA_PORT_vect" -> "l268"
              [] isr = "TCA0_OVF_vect" -> "l287"
              [] OTHER -> "l315",
     r |-> 0, pin |-> motion_pin, reading |-> 0, baseline |-> 0, tent |-> 0,
     entry |-> memory]

\* (mutant) a request accepted while a handler is executing (as with a
\* handler that re-enables interrupts, or a level 1 priority vector)
Dispatch_nested ==
    /\ exec.pc = "run"
    /\ Len(exec.stack) < 3
    /\ \E isr \in {"PORTA_PORT_vect", "TCA0_OVF_vect", "TCB0_INT_vect"} :
         /\ Requested(isr)
         /\ exec' = [exec EXCEPT !.stack = <<NewFrame(isr)>> \o @]
    /\ no_shift_out
    /\ UNCHANGED <<cpu, motion_pin, porta_intflag, ghosts>>

\* The interrupt controller accepts a request only when no handler is
\* executing: the handlers are plain ISR()s, none re-enables interrupts, and
\* no level 1 vector is configured.
Dispatch ==
    /\ exec.pc = "run"
    /\ exec.stack = <<>>
    /\ \E isr \in {"PORTA_PORT_vect", "TCA0_OVF_vect", "TCB0_INT_vect"} :
         /\ Requested(isr)
         /\ exec' = [exec EXCEPT !.stack = <<NewFrame(isr)>> \o @]
    /\ no_shift_out
    /\ UNCHANGED <<cpu, motion_pin, porta_intflag, ghosts>>

\* ---- ISR(PORTA_PORT_vect)
\* PORTA.INTFLAGS = MOTION_PIN
EdgeL268 ==
    /\ At("PORTA_PORT_vect", "l268")
    /\ porta_intflag' = 0
    /\ exec' = [exec EXCEPT !.stack[1].pc = "l271"]
    /\ no_shift_out
    /\ UNCHANGED <<cpu, motion_pin, ghosts>>

\* shift_reg_state |= motion_enabled_strips: the load
EdgeL271 ==
    /\ At("PORTA_PORT_vect", "l271")
    /\ exec' = [exec EXCEPT !.stack[1].pc = "l271_sts", !.stack[1].r = shift_reg_state]
    /\ no_shift_out
    /\ UNCHANGED <<cpu, motion_pin, porta_intflag, ghosts>>

\* ... and the store
EdgeL271Store ==
    /\ At("PORTA_PORT_vect", "l271_sts")
    /\ shift_reg_state' = U8(BitOr(top.r, motion_enabled_strips))
    /\ exec' = [exec EXCEPT !.stack[1].pc = "l272"]
    /\ no_shift_out
    /\ UNCHANGED <<led_timer, motion_enabled_strips, touchvars, motion_pin,
                   porta_intflag, ghosts>>

\* shift_out(shift_reg_state)
EdgeL272 ==
    /\ At("PORTA_PORT_vect", "l272")
    /\ shift_out(shift_reg_state)
    /\ exec' = [exec EXCEPT !.stack[1].pc = "l273"]
    /\ UNCHANGED <<cpu, motion_pin, porta_intflag, ghosts>>

\* led_timer = TIMEOUT_SEC
EdgeL273 ==
    /\ At("PORTA_PORT_vect", "l273")
    /\ led_timer' = TIMEOUT_SEC
    /\ exec' = [exec EXCEPT !.stack[1].pc = "reti"]
    /\ no_shift_out
    /\ UNCHANGED <<shift_reg_state, motion_enabled_strips, touchvars, motion_pin,
                   porta_intflag, ghosts>>

\* ---- ISR(TCA0_OVF_vect)
\* TCA0.SINGLE.INTFLAGS = TCA_SINGLE_OVF_bm
TickL287 ==
    /\ At("TCA0_OVF_vect", "l287")
    /\ exec' = [exec EXCEPT !.tca_if = 0, !.stack[1].pc = "l289"]
    /\ no_shift_out
    /\ UNCHANGED <<cpu, motion_pin, porta_intflag, ghosts>>

\* if (!(PORTA.IN & MOTION_PIN))
TickL289 ==
    /\ At("TCA0_OVF_vect", "l289")
    /\ exec' = [exec EXCEPT !.stack[1].pin = motion_pin,
                            !.stack[1].pc = IF motion_pin = 0 THEN "l292" ELSE "l294"]
    /\ no_shift_out
    /\ UNCHANGED <<cpu, motion_pin, porta_intflag, ghosts>>

\* led_timer = TIMEOUT_SEC
TickL292 ==
    /\ At("TCA0_OVF_vect", "l292")
    /\ led_timer' = TIMEOUT_SEC
    /\ exec' = [exec EXCEPT !.stack[1].pc = "reti"]
    /\ no_shift_out
    /\ UNCHANGED <<shift_reg_state, motion_enabled_strips, touchvars, motion_pin,
                   porta_intflag, ghosts>>

\* else if (led_timer > 0)
TickL294 ==
    /\ At("TCA0_OVF_vect", "l294")
    /\ exec' = [exec EXCEPT !.stack[1].pc = IF led_timer > 0 THEN "l296" ELSE "reti"]
    /\ no_shift_out
    /\ UNCHANGED <<cpu, motion_pin, porta_intflag, ghosts>>

\* led_timer--
TickL296 ==
    /\ At("TCA0_OVF_vect", "l296")
    /\ led_timer' = U8(led_timer + 255)
    /\ exec' = [exec EXCEPT !.stack[1].pc = "l299"]
    /\ no_shift_out
    /\ UNCHANGED <<shift_reg_state, motion_enabled_strips, touchvars, motion_pin,
                   porta_intflag, ghosts>>

\* if (led_timer == 0)
TickL299 ==
    /\ At("TCA0_OVF_vect", "l299")
    /\ exec' = [exec EXCEPT !.stack[1].pc = IF led_timer = 0 THEN "l301" ELSE "reti"]
    /\ no_shift_out
    /\ UNCHANGED <<cpu, motion_pin, porta_intflag, ghosts>>

\* shift_reg_state &= ~motion_enabled_strips
TickL301 ==
    /\ At("TCA0_OVF_vect", "l301")
    /\ shift_reg_state' = U8(BitAnd(shift_reg_state, BitNot(motion_enabled_strips)))
    /\ exec' = [exec EXCEPT !.stack[1].pc = "l302"]
    /\ no_shift_out
    /\ UNCHANGED <<led_timer, motion_enabled_strips, touchvars, motion_pin,
                   porta_intflag, ghosts>>

\* shift_out(shift_reg_state)
TickL302 ==
    /\ At("TCA0_OVF_vect", "l302")
    /\ shift_out(shift_reg_state)
    /\ exec' = [exec EXCEPT !.stack[1].pc = "reti"]
    /\ UNCHANGED <<cpu, motion_pin, porta_intflag, ghosts>>

\* ---- ISR(TCB0_INT_vect)
\* TCB0.INTFLAGS = TCB_CAPT_bm
ScanL315 ==
    /\ At("TCB0_INT_vect", "l315")
    /\ exec' = [exec EXCEPT !.tcb_if = 0, !.stack[1].pc = "l317"]
    /\ no_shift_out
    /\ UNCHANGED <<cpu, motion_pin, porta_intflag, ghosts>>

\* reading = touch_measure_filtered(); baseline = touch_baseline; tentative = ...
ScanL317 ==
    /\ At("TCB0_INT_vect", "l317")
    /\ \E reading \in IsrReadings :
         exec' = [exec EXCEPT !.stack[1].reading = reading,
                              !.stack[1].baseline = touch_baseline,
                              !.stack[1].tent = tentative(reading, touch_baseline),
                              !.stack[1].pc = "l323"]
    /\ no_shift_out
    /\ UNCHANGED <<cpu, motion_pin, porta_intflag, ghosts>>

\* if (tentative != touch_state)
ScanL323 ==
    /\ At("TCB0_INT_vect", "l323")
    /\ exec' = [exec EXCEPT !.stack[1].pc =
                               IF top.tent # touch_state THEN "l325" ELSE "l344"]
    /\ no_shift_out
    /\ UNCHANGED <<cpu, motion_pin, porta_intflag, ghosts>>

\* touch_debounce_cnt++; if (touch_debounce_cnt >= TOUCH_DEBOUNCE)
ScanL325 ==
    /\ At("TCB0_INT_vect", "l325")
    /\ touch_debounce_cnt' = U8(touch_debounce_cnt + 1)
    /\ exec' = [exec EXCEPT !.stack[1].pc =
                   IF touch_debounce_cnt' >= TOUCH_DEBOUNCE THEN "l329" ELSE "l348"]
    /\ no_shift_out
    /\ UNCHANGED <<led_timer, shift_reg_state, motion_enabled_strips, touch_baseline,
                   touch_state, motion_pin, porta_intflag, ghosts>>

\* touch_state = tentative; touch_debounce_cnt = 0
ScanL329 ==
    /\ At("TCB0_INT_vect", "l329")
    /\ touch_state' = top.tent
    /\ touch_debounce_cnt' = 0
    /\ exec' = [exec EXCEPT !.stack[1].pc = "l332"]
    /\ no_shift_out
    /\ UNCHANGED <<led_timer, shift_reg_state, motion_enabled_strips, touch_baseline,
                   motion_pin, porta_intflag, ghosts>>

\* if (touch_state) strip_on(ALL_LEDS); else strip_off(ALL_LEDS)
ScanL332 ==
    /\ At("TCB0_INT_vect", "l332")
    /\ IF touch_state # 0 THEN strip_on(ALL_LEDS) ELSE strip_off(ALL_LEDS)
    /\ exec' = [exec EXCEPT !.stack[1].pc = "l348"]
    /\ UNCHANGED <<led_timer, motion_enabled_strips, touchvars, motion_pin,
                   porta_intflag, ghosts>>

\* else touch_debounce_cnt = 0
ScanL344 ==
    /\ At("TCB0_INT_vect", "l344")
    /\ touch_debounce_cnt' = 0
    /\ exec' = [exec EXCEPT !.stack[1].pc = "l348"]
    /\ no_shift_out
    /\ UNCHANGED <<led_timer, shift_reg_state, motion_enabled_strips, touch_baseline,
                   touch_state, motion_pin, porta_intflag, ghosts>>

\* if (!touch_state) touch_baseline += / -= ...
ScanL348 ==
    /\ At("TCB0_INT_vect", "l348")
    /\ touch_baseline' = IF touch_state = 0
                         THEN adapt(touch_baseline, top.reading, top.baseline)
                         ELSE touch_baseline
    /\ exec' = [exec EXCEPT !.stack[1].pc = "reti"]
    /\ no_shift_out
    /\ UNCHANGED <<led_timer, shift_reg_state, motion_enabled_strips,
                   touch_debounce_cnt, touch_state, motion_pin, porta_intflag, ghosts>>

\* ---- return from interrupt
\* the handler returns; when it was the only one in progress, what it left
\* is kept for the comparison
Reti ==
    /\ exec.pc = "run"
    /\ exec.stack # <<>>
    /\ top.pc = "reti"
    /\ exec' = IF Len(exec.stack) = 1
               THEN [exec EXCEPT !.stack = <<>>, !.pc = "returned", !.done = top,
                                 !.result = memory,
                                 !.env = <<motion_pin, porta_intflag>>]
               ELSE [exec EXCEPT !.stack = Tail(@)]
    /\ no_shift_out
    /\ UNCHANGED <<cpu, motion_pin, porta_intflag, ghosts>>

\* back to the memory the handler found, its request flag raised again, the
\* motion input at the level the handler read
Rewind ==
    /\ exec.pc = "returned"
    /\ led_timer' = exec.done.entry.led_timer
    /\ shift_reg_state' = exec.done.entry.shift_reg_state
    /\ touch_baseline' = exec.done.entry.touch_baseline
    /\ touch_debounce_cnt' = exec.done.entry.touch_debounce_cnt
    /\ touch_state' = exec.done.entry.touch_state
    /\ sr595' = exec.done.entry.sr595
    /\ hc595' = exec.done.entry.hc595
    /\ motion_pin' = exec.done.pin
    /\ porta_intflag' = IF exec.done.isr = "PORTA_PORT_vect" THEN 1 ELSE porta_intflag
    /\ exec' = [exec EXCEPT !.pc = "rewound"]
    /\ UNCHANGED <<motion_enabled_strips, spi_writes, ghosts>>

\* the same handler, run to completion in one step
Replay ==
    /\ exec.pc = "rewound"
    /\ \/ exec.done.isr = "PORTA_PORT_vect" /\ PORTA_PORT_vect
       \/ exec.done.isr = "TCA0_OVF_vect" /\ TCA0_OVF_vect
       \/ exec.done.isr = "TCB0_INT_vect" /\ TCB0_INT_vect(exec.done.reading)
    /\ exec' = [exec EXCEPT !.pc = "replayed"]
    /\ UNCHANGED script

\* on with the motion input and its flag as they were at the return
Resume ==
    /\ exec.pc = "replayed"
    /\ motion_pin' = exec.env[1]
    /\ porta_intflag' = exec.env[2]
    /\ exec' = [exec EXCEPT !.pc = "run", !.done = <<>>, !.result = <<>>, !.env = <<>>]
    /\ UNCHANGED <<cpu, sr595, hc595, spi_writes, ghosts>>

\* ---- the peripherals
IsrPinFalls == exec.pc = "run" /\ MotionFall /\ UNCHANGED <<script, exec>>
IsrPinRises == exec.pc = "run" /\ MotionRise /\ UNCHANGED <<script, exec>>

\* TCA0 overflows / TCB0 reaches its period
IsrTimers ==
    /\ exec.pc = "run"
    /\ \/ exec.tca_if = 0 /\ exec' = [exec EXCEPT !.tca_if = 1]
       \/ exec.tcb_if = 0 /\ exec' = [exec EXCEPT !.tcb_if = 1]
    /\ no_shift_out
    /\ UNCHANGED <<cpu, motion_pin, porta_intflag, ghosts>>

NextIsr ==
    \/ Dispatch
    \/ EdgeL268
    \/ EdgeL271
    \/ EdgeL271Store
    \/ EdgeL272
    \/ EdgeL273
    \/ TickL287
    \/ TickL289
    \/ TickL292
    \/ TickL294
    \/ TickL296
    \/ TickL299
    \/ TickL301
    \/ TickL302
    \/ ScanL315
    \/ ScanL317
    \/ ScanL323
    \/ ScanL325
    \/ ScanL329
    \/ ScanL332
    \/ ScanL344
    \/ ScanL348
    \/ Reti
    \/ Rewind
    \/ Replay
    \/ Resume
    \/ IsrPinFalls
    \/ IsrPinRises
    \/ IsrTimers

SpecIsr == InitIsr /\ [][NextIsr]_vars

(***************************************************************************)
(* The direct-control functions called from main-line code after sei(),    *)
(* followed access by access: shift_reg_state is a volatile byte in SRAM,   *)
(* so "shift_reg_state |= strip_mask" is a load, an operation in a          *)
(* register and a store, and the argument of shift_out is a second load.    *)
(* The functions do not disable interrupts, so a pending handler is served  *)
(* between any two of these accesses; shift_out itself is taken as one      *)
(* step, and each handler as one step (it cannot be preempted).             *)
(***************************************************************************)
StripCalls == {"strip_on", "strip_off", "strip_set", "strip_toggle"}

InitMain ==
    /\ Boot
    /\ script = NoScript
    /\ exec = [pc |-> "idle", fn |-> "none", strip_mask |-> 0, r |-> 0, over |-> 0,
               data |-> 0]

\* what an access of main-line code leaves alone
main_access(name) ==
    /\ op' = name
    /\ arg' = 0
    /\ UNCHANGED <<led_timer, motion_enabled_strips, touchvars, motion_pin,
                   porta_intflag, idle_ticks, held_ticks, disagree_run, script>>

\* the value the function computes from the byte it loaded
strip_result(fn, r, strip_mask) ==
    CASE fn = "strip_on" -> U8(BitOr(r, strip_mask))
      [] fn = "strip_off" -> U8(BitAnd(r, BitNot(strip_mask)))
      [] fn = "strip_toggle" -> U8(BitXor(r, strip_mask))
      [] OTHER -> strip_mask

\* main-line code calls one of the four functions; strip_set loads nothing
MainCall ==
    /\ exec.pc = "idle"
    /\ \E fn \in StripCalls, m \in Masks :
          exec' = [pc |-> IF fn = "strip_set" THEN "store" ELSE "load",
                   fn |-> fn, strip_mask |-> m, r |-> 0, over |-> 0, data |-> 0]
    /\ no_shift_out
    /\ UNCHANGED shift_reg_state
    /\ main_access(exec'.fn)

\* lds: the left side of |=, &=, ^= is read
MainLoad ==
    /\ exec.pc = "load"
    /\ exec' = [exec EXCEPT !.pc = "store", !.r = shift_reg_state]
    /\ no_shift_out
    /\ UNCHANGED shift_reg_state
    /\ main_access(exec.fn)

\* sts: the result is written back (over: the byte it replaces, observed)
MainStore ==
    /\ exec.pc = "store"
    /\ shift_reg_state' = strip_result(exec.fn, exec.r, exec.strip_mask)
    /\ exec' = [exec EXCEPT !.pc = "arg", !.over = shift_reg_state]
    /\ no_shift_out
    /\ main_access(exec.fn)

\* lds: shift_reg_state is read again, as the argument of shift_out
MainArg ==
    /\ exec.pc = "arg"
    /\ exec' = [exec EXCEPT !.pc = "out", !.data = shift_reg_state]
    /\ no_shift_out
    /\ UNCHANGED shift_reg_state
    /\ main_access(exec.fn)

\* shift_out(data), and the function returns
MainShiftOut ==
    /\ exec.pc = "out"
    /\ shift_out(exec.data)
    /\ exec' = [exec EXCEPT !.pc = "idle", !.data = 0]
    /\ UNCHANGED shift_reg_state
    /\ main_access(exec.fn)

\* interrupts are enabled: the handlers are served whatever main is at
\* (PinFalls, PinRises, MotionEdge and Tick, which leave exec alone, and the
\* scan with a reading of an untouched or a touched pad)
MainScan ==
    /\ \E reading \in IsrReadings : TCB0_INT_vect(reading)
    /\ UNCHANGED <<script, exec>>

NextMain ==
    \/ MainCall
    \/ MainLoad
    \/ MainStore
    \/ MainArg
    \/ MainShiftOut
    \/ PinFalls
    \/ PinRises
    \/ MotionEdge
    \/ Tick
    \/ MainScan

SpecMain == InitMain /\ [][NextMain]_vars

(***************************************************************************)
(* The tentative touch state of a scan (main.c 321), operand by operand:    *)
(* && evaluates its right operand only when the left one is true            *)
(***************************************************************************)
InitTent ==
    /\ Boot
    /\ motion_pin = 1
    /\ script = NoScript
    /\ exec \in [pc : {"l321"}, reading : 0..AdcMax, baseline : 0..AdcMax,
                 subtracted : {0}, diff : {0}, tent : {0}]

\* (mutant) the subtraction evaluated whatever the comparison says
TentCompare_unguarded ==
    /\ exec.pc = "l321"
    /\ exec' = [exec EXCEPT !.pc = "sub"]
    /\ UNCHANGED machine

\* (reading > baseline) && ...
TentCompare ==
    /\ exec.pc = "l321"
    /\ exec' = IF exec.reading > exec.baseline
               THEN [exec EXCEPT !.pc = "sub"]
               ELSE [exec EXCEPT !.pc = "done", !.tent = 0]
    /\ UNCHANGED machine

\* ... ((reading - baseline) >= TOUCH_THRESHOLD), in uint16_t
TentSubtract ==
    /\ exec.pc = "sub"
    /\ LET diff == U16(exec.reading - exec.baseline)
       IN  exec' = [exec EXCEPT !.pc = "done", !.subtracted = 1, !.diff = diff,
                                !.tent = IF diff >= TOUCH_THRESHOLD THEN 1 ELSE 0]
    /\ UNCHANGED machine

NextTent ==
    \/ TentCompare
    \/ TentSubtract

SpecTent == InitTent /\ [][NextTent]_vars

(***************************************************************************)
(* The averaging loops followed iteration by iteration: the 64 raw samples  *)
(* of touch_measure_filtered summed in its uint16_t, and the 16 filtered    *)
(* readings of the startup calibration summed in main's uint32_t.  The      *)
(* inputs of a loop are k values at one level followed by values at a       *)
(* second level; exact is the sum as an integer, kept beside the variable.  *)
(***************************************************************************)
\* results of one ADC conversion / values returned by touch_measure_filtered
SampleLevels == {0, 1, 511, AdcMax}

\* input number i (from 0) of the loop
sample(e, i) == IF i < e.k THEN e.a ELSE e.b

\* the inputs of the loop, as a sequence
samples_of(e, n) == [i \in 1..n |-> sample(e, i - 1)]

InitFilt ==
    /\ Boot
    /\ motion_pin = 1
    /\ script = NoScript
    /\ exec \in [pc : {"l242"}, a : SampleLevels, b : SampleLevels,
                 k : 0..TOUCH_SAMPLES, i : {0}, sum : {0}, exact : {0},
                 result : {0}]
            \cup [pc : {"l396"}, a : SampleLevels, b : SampleLevels,
                  k : 0..BASELINE_INIT_CYCLES, i : {0}, sum : {0}, exact : {0},
                  result : {0}]

\* (mutant) the accumulator of touch_measure_filtered declared uint8_t
FiltL244_uint8 ==
    /\ exec.pc = "l242"
    /\ exec.i < TOUCH_SAMPLES
    /\ exec' = [exec EXCEPT !.sum = U8(exec.sum + sample(exec, exec.i)),
                            !.exact = exec.exact + sample(exec, exec.i),
                            !.i = U8(exec.i + 1)]
    /\ UNCHANGED machine

\* for (i = 0; i < TOUCH_SAMPLES; i++) sum += touch_measure_once();
FiltL244 ==
    /\ exec.pc = "l242"
    /\ exec.i < TOUCH_SAMPLES
    /\ exec' = [exec EXCEPT !.sum = U16(exec.sum + sample(exec, exec.i)),
                            !.exact = exec.exact + sample(exec, exec.i),
                            !.i = U8(exec.i + 1)]
    /\ UNCHANGED machine

\* return sum >> 6;
FiltL247 ==
    /\ exec.pc = "l242"
    /\ exec.i >= TOUCH_SAMPLES
    /\ exec' = [exec EXCEPT !.pc = "ret", !.result = Shr(exec.sum, 6)]
    /\ UNCHANGED machine

\* for (i = 0; i < BASELINE_INIT_CYCLES; i++)
\*     baseline_sum += touch_measure_filtered();
\* (16 uint16_t values stay below 2^32: the uint32_t cannot wrap)
CalL398 ==
    /\ exec.pc = "l396"
    /\ exec.i < BASELINE_INIT_CYCLES
    /\ exec' = [exec EXCEPT !.sum = exec.sum + U16(sample(exec, exec.i)),
                            !.exact = exec.exact + sample(exec, exec.i),
                            !.i = U8(exec.i + 1)]
    /\ UNCHANGED machine

\* touch_baseline = (uint16_t)(baseline_sum / BASELINE_INIT_CYCLES);
CalL400 ==
    /\ exec.pc = "l396"
    /\ exec.i >= BASELINE_INIT_CYCLES
    /\ touch_baseline' = U16(exec.sum \div BASELINE_INIT_CYCLES)
    /\ exec' = [exec EXCEPT !.pc = "cal", !.result = touch_baseline']
    /\ UNCHANGED <<led_timer, shift_reg_state, motion_enabled_strips,
                   touch_debounce_cnt, touch_state, sr595, hc595, motion_pin,
                   porta_intflag, op, arg, spi_writes, idle_ticks, held_ticks,
                   disagree_run, script>>

NextFilt ==
    \/ FiltL244
    \/ FiltL247
    \/ CalL398
    \/ CalL400

SpecFilt == InitFilt /\ [][NextFilt]_vars

(***************************************************************************)
(* One scan from any baseline and any reading the ADC can give, released    *)
(* or touched, with the debounce counter fresh or one short of a commit     *)
(***************************************************************************)
InitAdapt ==
    /\ led_timer = 0
    /\ shift_reg_state = 0
    /\ motion_enabled_strips = ALL_LEDS
    /\ touch_baseline \in 0..AdcMax
    /\ touch_debounce_cnt \in {0, TOUCH_DEBOUNCE - 1}
    /\ touch_state \in {0, 1}
    /\ sr595 = 0
    /\ hc595 = 0
    /\ motion_pin = 1
    /\ porta_intflag = 0
    /\ op = "main"
    /\ arg = 0
    /\ spi_writes = 1
    /\ idle_ticks = TIMEOUT_SEC
    /\ held_ticks = 0
    /\ disagree_run = 0
    /\ script = NoScript
    /\ exec = [pc |-> "l312", baseline |-> touch_baseline, state |-> touch_state]

\* ISR(TCB0_INT_vect), once (exec keeps the baseline and state it found)
AdaptScan ==
    /\ exec.pc = "l312"
    /\ \E reading \in 0..AdcMax : TCB0_INT_vect(reading)
    /\ exec' = [exec EXCEPT !.pc = "l359"]
    /\ UNCHANGED script

SpecAdapt == InitAdapt /\ [][AdaptScan]_vars

(***************************************************************************)
(* Properties                                                              *)
(***************************************************************************)
IsEdge == op' = "PORTA_PORT_vect"
IsTick == op' = "TCA0_OVF_vect"
IsScan == op' = "TCB0_INT_vect"

\* C1: whatever the state before, the motion-edge handler ends with
\* led_timer = TIMEOUT_SEC and shift_reg_state = (state before) OR
\* motion_enabled_strips, and it writes that value to the register, once.
C1_MotionEdge ==
    [][IsEdge =>
         /\ led_timer' = TIMEOUT_SEC
         /\ IsOr(shift_reg_state', shift_reg_state, motion_enabled_strips)
         /\ spi_writes' = 1
         /\ hc595' = shift_reg_state']_vars

\* the edge handler has run while touched, with strip 1 alone eligible
C1_Witness ==
    /\ op = "PORTA_PORT_vect"
    /\ touch_state = 1
    /\ motion_enabled_strips = LED_STRIP_1
    /\ shift_reg_state = LED_STRIP_1
    /\ hc595 = LED_STRIP_1
    /\ led_timer = TIMEOUT_SEC

\* C2: led_timer is TIMEOUT_SEC less the number of ticks that found motion
\* deasserted since it was armed (0 from the TIMEOUT_SEC-th on); such a tick
\* decrements by one, clears the eligible strips and writes the register once
\* exactly when it brings led_timer to 0, and changes nothing and writes
\* nothing when it finds led_timer at 0.
C2_Countdown ==
    /\ [](led_timer = TIMEOUT_SEC - idle_ticks)
    /\ [][(IsTick /\ motion_pin = 1) =>
            /\ led_timer > 0 => led_timer' = led_timer - 1
            /\ led_timer = 1 =>
                 /\ spi_writes' = 1
                 /\ IsAndNot(shift_reg_state', shift_reg_state, motion_enabled_strips)
                 /\ hc595' = shift_reg_state'
            /\ led_timer > 1 =>
                 /\ spi_writes' = 0
                 /\ UNCHANGED <<shift_reg_state, sr595, hc595>>
            /\ led_timer = 0 =>
                 /\ spi_writes' = 0
                 /\ UNCHANGED <<cpu, sr595, hc595>>]_vars

\* the TIMEOUT_SEC-th idle tick has just switched strip 1, the only eligible
\* one, off and left the others on
C2_Witness ==
    /\ op = "TCA0_OVF_vect"
    /\ motion_pin = 1
    /\ idle_ticks = TIMEOUT_SEC
    /\ led_timer = 0
    /\ spi_writes = 1
    /\ motion_enabled_strips = LED_STRIP_1
    /\ shift_reg_state = ALL_LEDS - LED_STRIP_1

\* C3: a tick that finds motion asserted leaves led_timer = TIMEOUT_SEC, does
\* not change shift_reg_state and writes nothing; after any number of such
\* ticks in a row led_timer is TIMEOUT_SEC.
C3_Rearm ==
    /\ [](held_ticks > 0 => led_timer = TIMEOUT_SEC)
    /\ [][(IsTick /\ motion_pin = 0) =>
            /\ led_timer' = TIMEOUT_SEC
            /\ spi_writes' = 0
            /\ UNCHANGED <<shift_reg_state, sr595, hc595>>]_vars

\* MaxHeld ticks in a row have found motion asserted
C3_Witness ==
    /\ op = "TCA0_OVF_vect"
    /\ motion_pin = 0
    /\ held_ticks = MaxHeld
    /\ led_timer = TIMEOUT_SEC
    /\ spi_writes = 0

\* C4: a scan changes the confirmed touch state if and only if it is the
\* TOUCH_DEBOUNCE-th scan in a row whose tentative state differs from the
\* confirmed one; a scan whose tentative state agrees resets the counter and
\* commits nothing.
C4_Debounce ==
    [][IsScan =>
         LET tent == tentative(arg', touch_baseline)
         IN  /\ (touch_state' # touch_state) <=>
                    (tent # touch_state /\ disagree_run = TOUCH_DEBOUNCE - 1)
             /\ touch_state' # touch_state => touch_state' = tent
             /\ tent = touch_state =>
                    (touch_debounce_cnt' = 0 /\ touch_state' = touch_state)]_vars

\* TOUCH_DEBOUNCE - 1 scans in a row have read a touch, and the confirmed
\* state is still released
C4_Witness ==
    /\ op = "TCB0_INT_vect"
    /\ touch_state = 0
    /\ tentative(arg, touch_baseline) = 1
    /\ disagree_run = TOUCH_DEBOUNCE - 1
    /\ touch_debounce_cnt = TOUCH_DEBOUNCE - 1

\* the baseline moved towards the reading by the difference / 2^BASELINE_SHIFT
Nudged(baseline, reading) ==
    IF reading > baseline THEN baseline + (reading - baseline) \div (2^BASELINE_SHIFT)
    ELSE IF reading < baseline THEN baseline - (baseline - reading) \div (2^BASELINE_SHIFT)
    ELSE baseline

\* C5: a scan that ends touched (the committing scan too), the motion-edge
\* handler and the tick handler leave touch_baseline unchanged; the scan that
\* commits a release already applies the baseline update.
C5_BaselineFrozen ==
    [][/\ (IsScan /\ touch_state' = 1) => touch_baseline' = touch_baseline
       /\ (IsEdge \/ IsTick) => touch_baseline' = touch_baseline
       /\ (IsScan /\ touch_state = 1 /\ touch_state' = 0) =>
              touch_baseline' = Nudged(touch_baseline, arg')]_vars

\* the scan that committed the touch read 2^BASELINE_SHIFT or more above the
\* baseline
C5_Witness ==
    /\ op = "TCB0_INT_vect"
    /\ touch_state = 1
    /\ spi_writes = 1
    /\ arg - touch_baseline >= 2^BASELINE_SHIFT

\* C6: from baseline 500, released, counter 0: of five scans reading 530 the
\* fifth, and no earlier one, commits touched and leaves all strips on; of
\* five further scans reading 500 the fifth, and no earlier one, commits
\* released and leaves all strips off; the baseline is 500 throughout.
C6_EndToEnd ==
    /\ touch_baseline = 500
    /\ script.pc < TOUCH_DEBOUNCE => touch_state = 0
    /\ (script.pc >= TOUCH_DEBOUNCE /\ script.pc < 2 * TOUCH_DEBOUNCE) => touch_state = 1
    /\ script.pc = 2 * TOUCH_DEBOUNCE => touch_state = 0
    /\ (op = "TCB0_INT_vect" /\ script.pc = TOUCH_DEBOUNCE) =>
           (shift_reg_state = 255 /\ hc595 = 255 /\ spi_writes = 1)
    /\ (op = "TCB0_INT_vect" /\ script.pc = 2 * TOUCH_DEBOUNCE) =>
           (shift_reg_state = 0 /\ hc595 = 0 /\ spi_writes = 1)

\* the tenth scan has committed the release
C6_Witness ==
    /\ op = "TCB0_INT_vect"
    /\ script.pc = 2 * TOUCH_DEBOUNCE
    /\ touch_state = 0
    /\ shift_reg_state = 0

C8_StripAlgebra ==
    /\ script.pc = 2 => shift_reg_state = script.prior
    /\ script.pc = 3 => IsOr(shift_reg_state, script.prior, script.m1)
    /\ script.pc = 4 =>
           /\ \E x \in Byte : /\ IsOr(x, script.prior, script.m1)
                              /\ IsOr(shift_reg_state, x, script.m2)
           /\ script.prior = 0 => IsOr(shift_reg_state, script.m1, script.m2)
    /\ script.pc = 5 => shift_reg_state = ALL_LEDS
    /\ script.pc = 6 => IsAndNot(shift_reg_state, ALL_LEDS, script.m1)
    /\ script.pc = 7 =>
           \E x \in Byte : /\ IsAndNot(x, ALL_LEDS, script.m1)
                           /\ IsXor(shift_reg_state, x, script.m2)
    /\ script.pc > 1 => hc595 = shift_reg_state

\* the whole sequence has run with m1 = 0xA5 and m2 = 0x0F
C8_Witness ==
    /\ script.pc = 7
    /\ script.m1 = 165
    /\ script.m2 = 15
    /\ op = "strip_toggle"
    /\ shift_reg_state = 85

\* C9: strip_motion_enable ORs mask bits into motion_enabled_strips and
\* strip_motion_disable clears mask bits from it; both leave shift_reg_state,
\* the register, led_timer and the touch state unchanged and write nothing.
C9_EligibilityOnly ==
    [][/\ op' = "strip_motion_enable" =>
              \E m \in Masks : IsOr(motion_enabled_strips', motion_enabled_strips, m)
       /\ op' = "strip_motion_disable" =>
              \E m \in Masks : IsAndNot(motion_enabled_strips', motion_enabled_strips, m)
       /\ op' \in {"strip_motion_enable", "strip_motion_disable"} =>
              /\ spi_writes' = 0
              /\ UNCHANGED <<shift_reg_state, sr595, hc595, led_timer, touchvars>>]_vars

\* strip 1 has lost its eligibility while it was on and the timer running
C9_Witness ==
    /\ op = "strip_motion_disable"
    /\ motion_enabled_strips = ALL_LEDS - LED_STRIP_1
    /\ shift_reg_state = ALL_LEDS
    /\ hc595 = ALL_LEDS
    /\ led_timer > 0

\* C10: whenever a tick has found motion asserted and re-armed the timer,
\* every motion-eligible strip is on, and while the motion input stays
\* asserted no motion edge, tick or scan switches an eligible strip off.
C10_StripsOnWhileMotion ==
    /\ []((op = "TCA0_OVF_vect" /\ held_ticks > 0) =>
             Within(motion_enabled_strips, shift_reg_state))
    /\ [][(/\ IsEdge \/ IsTick \/ IsScan
           /\ motion_pin = 0
           /\ motion_pin' = 0
           /\ Within(motion_enabled_strips, shift_reg_state)) =>
              Within(motion_enabled_strips', shift_reg_state')]_vars

\* a scan has committed a release and switched every strip off while the
\* motion input is asserted and the timer armed
C10_ReleaseDuringMotion ==
    /\ op = "TCB0_INT_vect"
    /\ spi_writes = 1
    /\ touch_state = 0
    /\ motion_pin = 0
    /\ porta_intflag = 0
    /\ led_timer = TIMEOUT_SEC
    /\ motion_enabled_strips = ALL_LEDS
    /\ shift_reg_state = 0

\* C11: the tick that brings the countdown to 0 switches off every strip
\* whose eligibility bit is set, however it was switched on, and leaves every
\* strip whose eligibility bit is clear as it was; eligibility is unchanged.
C11_ExpiryClearsEligibleOnly ==
    [][(IsTick /\ motion_pin = 1 /\ led_timer = 1) =>
         /\ \A i \in Strips :
              /\ On(motion_enabled_strips, i) => ~On(shift_reg_state', i)
              /\ ~On(motion_enabled_strips, i) =>
                     (On(shift_reg_state', i) <=> On(shift_reg_state, i))
         /\ shift_reg_state' \in Byte
         /\ hc595' = shift_reg_state'
         /\ motion_enabled_strips' = motion_enabled_strips]_vars

\* the countdown has expired with strip 1 not eligible: strip 1 is still on,
\* the seven eligible strips are off
C11_Witness ==
    /\ op = "TCA0_OVF_vect"
    /\ led_timer = 0
    /\ spi_writes = 1
    /\ motion_enabled_strips = ALL_LEDS - LED_STRIP_1
    /\ shift_reg_state = LED_STRIP_1
    /\ hc595 = LED_STRIP_1

\* C12: a scan that commits a touch leaves all eight strips on, and a scan
\* that commits a release leaves all eight off, whatever motion_enabled_strips
\* and led_timer are; neither changes led_timer or motion_enabled_strips.
C12_CommitActsOnAllStrips ==
    [][(IsScan /\ touch_state' # touch_state) =>
         /\ touch_state' = 1 => (shift_reg_state' = 255 /\ hc595' = 255)
         /\ touch_state' = 0 => (shift_reg_state' = 0 /\ hc595' = 0)
         /\ UNCHANGED <<led_timer, motion_enabled_strips>>]_vars

\* a release was committed while the countdown was running and only strip 1
\* was eligible: every strip is off and the countdown still runs
C12_Witness ==
    /\ op = "TCB0_INT_vect"
    /\ spi_writes = 1
    /\ touch_state = 0
    /\ led_timer > 0
    /\ led_timer < TIMEOUT_SEC
    /\ motion_enabled_strips = LED_STRIP_1
    /\ shift_reg_state = 0
    /\ hc595 = 0

\* C19: led_timer is always in 0..TIMEOUT_SEC; it never wraps to 255.
C19_TimerRange ==
    led_timer \in 0..TIMEOUT_SEC

\* a tick has found the countdown already at 0 with motion deasserted
C19_Witness ==
    /\ op = "TCA0_OVF_vect"
    /\ motion_pin = 1
    /\ spi_writes = 0
    /\ idle_ticks = TIMEOUT_SEC
    /\ led_timer = 0

\* C20: between scans touch_debounce_cnt is in 0..TOUCH_DEBOUNCE-1 and is the
\* number of scans in a row, since the last commit or agreement, whose
\* tentative state differed from the confirmed one; touch_state changes only
\* in a scan, which resets the counter to 0.
C20_DebounceCounter ==
    /\ [](touch_debounce_cnt \in 0..(TOUCH_DEBOUNCE - 1))
    /\ [](touch_debounce_cnt = disagree_run)
    /\ [][touch_state' # touch_state => (IsScan /\ touch_debounce_cnt' = 0)]_vars
    /\ [][(IsEdge \/ IsTick) => UNCHANGED <<touch_state, touch_debounce_cnt>>]_vars

\* a touch has just been committed: the counter is back at 0
C20_Witness ==
    /\ op = "TCB0_INT_vect"
    /\ spi_writes = 1
    /\ touch_state = 1
    /\ touch_debounce_cnt = 0
    /\ disagree_run = 0

\* no motion: PA2 is high and no edge is pending
Quiet == motion_pin = 1 /\ porta_intflag = 0

\* C18: if from some point on the motion input stays deasserted with no edge
\* pending, while ticks keep coming, then led_timer becomes 0 and stays 0 (at
\* the latest when TIMEOUT_SEC ticks have found motion deasserted); the step
\* that brings it to 0 is a tick that leaves every eligible strip off, and it
\* leaves 0 only by a motion edge or a tick that sees motion asserted.
C18_AutoOff ==
    /\ (<>[]Quiet) => <>[](led_timer = 0)
    /\ [](idle_ticks = TIMEOUT_SEC => led_timer = 0)
    /\ [][(led_timer # 0 /\ led_timer' = 0) =>
             /\ IsTick
             /\ \A i \in Strips : On(motion_enabled_strips, i) => ~On(shift_reg_state', i)
             /\ hc595' = shift_reg_state']_vars
    /\ [][(led_timer = 0 /\ led_timer' # 0) =>
             (IsEdge \/ (IsTick /\ motion_pin = 0))]_vars

\* the countdown has run out during a touch: the touch had every strip on,
\* and the expiring tick switched them off
C18_Witness ==
    /\ op = "TCA0_OVF_vect"
    /\ Quiet
    /\ touch_state = 1
    /\ led_timer = 0
    /\ idle_ticks = TIMEOUT_SEC
    /\ spi_writes = 1
    /\ motion_enabled_strips = ALL_LEDS
    /\ shift_reg_state = 0

\* C15: from every reachable state with a motion edge pending, and whichever
\* level of the motion input the tick sees, serving the edge and then the tick
\* ends with the same shift_reg_state and the same latched byte as serving
\* the tick and then the edge.
C15_TickEdgeOrder ==
    exec.pc = "both_done" => <<shift_reg_state, hc595>> = exec.out

\* both orders were run from a state in which the tick expires the countdown
\* (motion input back high, one second left, a manually lit strip that is not
\* eligible): the tick's switch-off and the edge's switch-on commute
C15_Witness ==
    /\ exec.pc = "both_done"
    /\ exec.snap.led_timer = 1
    /\ exec.snap.motion_pin = 1
    /\ motion_enabled_strips = ALL_LEDS - LED_STRIP_1
    /\ exec.snap.shift_reg_state = LED_STRIP_1
    /\ shift_reg_state = ALL_LEDS
    /\ hc595 = ALL_LEDS

\* C16: in shift_out the latch line is low from before the transfer starts
\* until the transfer-complete flag has been seen, and is then pulsed high
\* and low once; the outputs change at most once per call, at that pulse,
\* from the previous byte to the whole new byte, and never show a partly
\* shifted value.
C16_LatchSequence ==
    /\ [](exec.pc \in {"l107", "l110", "l113", "l116", "l119"} => exec.latch = 0)
    /\ [](exec.bits > 0 => (exec.pc = "l113" /\ exec.latch = 0))
    /\ [](exec.pc = "l116" => (exec.spi_if = 1 /\ exec.bits = 0))
    /\ [](hc595 \in {exec.prev, exec.data})
    /\ [](exec.pulses = IF exec.pc \in {"l120", "l123", "idle"} THEN 1 ELSE 0)
    /\ [](exec.pc \in {"l120", "l123", "idle"} =>
             (hc595 = shift_reg_state /\ exec.latch = IF exec.pc = "l120" THEN 1 ELSE 0))
    /\ [][hc595' # hc595 =>
             (exec.pc = "l119" /\ hc595 = exec.prev /\ hc595' = exec.data)]_vars

\* the latch has just gone high: 0xA5 replaced 0x5A on the outputs
C16_Witness ==
    /\ exec.pc = "l120"
    /\ exec.latch = 1
    /\ exec.pulses = 1
    /\ exec.prev = 90
    /\ exec.data = 165
    /\ hc595 = 165

\* main has reached its idle loop
InLoop == exec.pc \in {"l410", "l414"}

\* C17: no handler runs before initialization is complete: when the first
\* handler runs, the all-off byte has been latched, touch_baseline has been
\* seeded from BASELINE_INIT_CYCLES filtered readings and both timers are
\* armed; from then on main only idles and changes none of shift_reg_state,
\* led_timer, motion_enabled_strips and the touch variables.
C17_InitBeforeHandlers ==
    /\ [][(IsEdge \/ IsTick \/ IsScan) =>
             (InLoop /\ exec.cal = BASELINE_INIT_CYCLES
                     /\ exec.tca = 1 /\ exec.tcb = 1)]_vars
    /\ []((InLoop /\ exec.handled = 0) =>
             /\ cpu = <<0, 0, ALL_LEDS,
                        calibrate([i \in 1..BASELINE_INIT_CYCLES |->
                                      exec.baseline_sum \div BASELINE_INIT_CYCLES]),
                        0, 0>>
             /\ touch_baseline = 500
             /\ hc595 = 0
             /\ sr595 = 0)
    /\ [](~InLoop => exec.handled = 0)
    /\ [][(op' = "main" /\ InLoop) =>
             (InLoop' /\ UNCHANGED <<cpu, sr595, hc595>>)]_vars

\* a motion edge that arrived during initialization was served right after
\* sei(), before main went to sleep, and lit the strips
C17_Witness ==
    /\ exec.pc = "l410"
    /\ exec.handled = 1
    /\ op = "PORTA_PORT_vect"
    /\ touch_baseline = 500
    /\ shift_reg_state = ALL_LEDS
    /\ hc595 = ALL_LEDS

\* C14: at most one handler is executing at any time, it runs to its return
\* before another starts, and what it leaves in led_timer, shift_reg_state,
\* the touch variables and the register is what the whole handler leaves
\* when run as one step from the state it started in: the outcome is that of
\* a sequence of whole handlers, and no update is lost.
C14_HandlersDoNotNest ==
    /\ Len(exec.stack) <= 1
    /\ exec.pc # "run" => exec.stack = <<>>
    /\ exec.pc = "replayed" => memory = exec.result

\* a tick handler that expired the countdown has returned while a motion
\* edge, requested during it, is still waiting; run as one step it leaves
\* the same state
C14_Witness ==
    /\ exec.pc = "replayed"
    /\ exec.done.isr = "TCA0_OVF_vect"
    /\ exec.done.entry.led_timer = 1
    /\ exec.done.entry.shift_reg_state = ALL_LEDS
    /\ exec.env[2] = 1
    /\ led_timer = 0
    /\ shift_reg_state = 0
    /\ hc595 = 0

\* a function of the direct-control group called from main-line code is
\* between its call and its return
InCall == exec.pc \in {"load", "store", "arg", "out"}

\* C13: a direct-control function (strip_on, strip_off, strip_set,
\* strip_toggle) called from main-line code is not preempted: no motion-edge,
\* tick or scan handler runs between its call and its return; hence the byte
\* it writes back is computed from the current shift_reg_state (no handler
\* update is lost), the byte it hands to shift_out is the one it wrote, and
\* at its return the register holds shift_reg_state.
C13_ManualOpsExclusive ==
    /\ [][InCall => ~(IsEdge \/ IsTick \/ IsScan)]_vars
    /\ [](exec.pc = "store" /\ exec.fn # "strip_set" => exec.r = shift_reg_state)
    /\ [](exec.pc = "out" => exec.data = shift_reg_state)
    /\ [](exec.pc = "idle" => hc595 = shift_reg_state)

\* strip_on(LED_STRIP_1) loaded 0x00; the motion edge was served before the
\* store and switched all strips on; the store wrote 0x00 OR LED_STRIP_1 over
\* 0xFF, and the function has returned: strips 2..8 are off in
\* shift_reg_state and in the register, with the timer armed
C13_LostUpdate ==
    /\ exec.pc = "idle"
    /\ exec.fn = "strip_on"
    /\ exec.strip_mask = LED_STRIP_1
    /\ exec.r = 0
    /\ exec.over = ALL_LEDS
    /\ op = "strip_on"
    /\ shift_reg_state = LED_STRIP_1
    /\ hc595 = LED_STRIP_1
    /\ led_timer = TIMEOUT_SEC

C22_AveragesExact ==
    /\ exec.pc \in {"l242", "ret"} => exec.sum = exec.exact
    /\ exec.pc = "ret" =>
         /\ exec.result = exec.exact \div TOUCH_SAMPLES
         /\ exec.exact = exec.k * exec.a + (TOUCH_SAMPLES - exec.k) * exec.b
         /\ exec.result \in 0..AdcMax
         /\ exec.result = touch_measure_filtered(samples_of(exec, TOUCH_SAMPLES))
    /\ exec.pc = "cal" =>
         /\ touch_baseline = exec.exact \div BASELINE_INIT_CYCLES
         /\ exec.exact = exec.k * exec.a + (BASELINE_INIT_CYCLES - exec.k) * exec.b
         /\ touch_baseline \in 0..AdcMax
         /\ touch_baseline = calibrate(samples_of(exec, BASELINE_INIT_CYCLES))

\* 64 samples at full scale: the accumulator ends at 65472, below 2^16, and
\* the function returns 1023
C22_Witness ==
    /\ exec.pc = "ret"
    /\ exec.a = AdcMax
    /\ exec.b = AdcMax
    /\ exec.sum = TOUCH_SAMPLES * AdcMax
    /\ exec.result = AdcMax

\* x lies between p and q, whichever order they come in
Between(x, p, q) == (p <= x /\ x <= q) \/ (q <= x /\ x <= p)

\* C23: after a scan that ends released, the baseline is the old baseline
\* plus (reading - baseline) >> BASELINE_SHIFT when the reading is above it,
\* minus (baseline - reading) >> BASELINE_SHIFT when below, the same when
\* equal; it lies between the old baseline and the reading, and with both in
\* 0..AdcMax it stays in 0..AdcMax (the uint16_t does not wrap).
C23_BaselineTracks ==
    exec.pc = "l359" /\ touch_state = 0 =>
        /\ arg > exec.baseline =>
             touch_baseline = exec.baseline + Shr(arg - exec.baseline, BASELINE_SHIFT)
        /\ arg < exec.baseline =>
             touch_baseline = exec.baseline - Shr(exec.baseline - arg, BASELINE_SHIFT)
        /\ arg = exec.baseline => touch_baseline = exec.baseline
        /\ Between(touch_baseline, exec.baseline, arg)
        /\ touch_baseline \in 0..AdcMax

\* the scan that commits the release, with the reading as far below the
\* baseline as it can be: the baseline comes down by 1023 >> 7 = 7
C23_Witness ==
    /\ exec.pc = "l359"
    /\ exec.state = 1
    /\ touch_state = 0
    /\ exec.baseline = AdcMax
    /\ arg = 0
    /\ touch_baseline = AdcMax - 7

====
